---- MODULE Spec2Model ----
(***************************************************************************)
(* Model of the Cloudflare R2 upload / delete utility: the package         *)
(* implementation (cloudflare_r2.py, cloudflare_r2_upload.py,              *)
(* cloudflare_r2_delete.py, __main__.py) and the monolithic one (main.py). *)
(*                                                                         *)
(* Python strings are sequences of symbols.  A symbol is either a single   *)
(* character ("/", "\\", the double quote) or a run of characters that     *)
(* holds no separator and is never cut by the program ("s", "a",           *)
(* ".DS_Store", "..").  Everything the program does on strings (split,     *)
(* join, replace, strip, substring test, dirname, relpath) is computed on  *)
(* these sequences.                                                        *)
(***************************************************************************)
EXTENDS Integers, Sequences, FiniteSets, TLC

VARIABLES
    os,         \* "posix" or "nt": which os.path the interpreter runs
    impl,       \* "pkg" (__main__.py + cloudflare_r2_*.py) or "mono" (main.py)
    env,        \* the five environment variables after load_dotenv()
    args,       \* the parsed command line: path, base_path, upload, delete
    pc,         \* position of the process
    s3,         \* TRUE once boto3.client('s3', ...) has been created
    local,      \* content of each local file (by its components from the root)
    bucket,     \* the store: key -> [body, etag]
    calls,      \* every store call issued so far, in order
    out,        \* what the process printed / how each upload_file ended
    todo,       \* directory walk: the file paths not yet handed to upload_file
    listed,     \* folder delete: the listed keys not yet deleted
    faults,     \* number of store calls the environment has failed so far
    run,        \* number of the current upload run (the command is run again)
    fpath,      \* key mapping alone: the file path handed to the mapper
    key         \* key mapping alone: the key produced for fpath

vars == <<os, impl, env, args, pc, s3, local, bucket, calls, out, todo,
          listed, faults, run, fpath, key>>

----------------------------------------------------------------------------
(* Symbols *)

SLASH     == "/"
BACKSLASH == "\\"
QUOTE     == "\""
PARDIR    == ".."
DS_STORE  == ".DS_Store"
NONE      == "None"

----------------------------------------------------------------------------
(* Python str operations *)

RECURSIVE SplitAcc(_, _, _, _)
SplitAcc(s, seps, cur, acc) ==
    IF s = <<>> THEN Append(acc, cur)
    ELSE IF Head(s) \in seps
         THEN SplitAcc(Tail(s), seps, <<>>, Append(acc, cur))
         ELSE SplitAcc(Tail(s), seps, Append(cur, Head(s)), acc)

\* s.split(sep): the pieces between separators, empty pieces kept
Split(s, seps) == SplitAcc(s, seps, <<>>, <<>>)

RECURSIVE StrJoin(_, _)
\* sep.join(pieces)
StrJoin(pieces, sep) ==
    IF pieces = <<>> THEN <<>>
    ELSE IF Len(pieces) = 1 THEN pieces[1]
    ELSE pieces[1] \o <<sep>> \o StrJoin(Tail(pieces), sep)

\* s.replace("\\", "/")
ReplaceBackslash(s) ==
    [i \in 1..Len(s) |-> IF s[i] = BACKSLASH THEN SLASH ELSE s[i]]

RECURSIVE LStrip(_, _)
LStrip(s, chars) ==
    IF s # <<>> /\ Head(s) \in chars THEN LStrip(Tail(s), chars) ELSE s

RECURSIVE RStrip(_, _)
RStrip(s, chars) ==
    IF s # <<>> /\ s[Len(s)] \in chars
    THEN RStrip(SubSeq(s, 1, Len(s) - 1), chars) ELSE s

\* the quotes taken off one end only
StripLeft(s, chars) == LStrip(s, chars)

\* the ETag compared as the store sent it
NoStrip(s, chars) == s

\* s.strip(chars)
Strip(s, chars) == RStrip(LStrip(s, chars), chars)

\* sub in s, for a sub that is one symbol
Contains(s, sym) == \E i \in 1..Len(s) : s[i] = sym

----------------------------------------------------------------------------
(* os.path, for the two flavours of the interpreter *)

\* the characters os.path takes as separators
Seps(o) == IF o = "nt" THEN {SLASH, BACKSLASH} ELSE {SLASH}

\* os.sep
Sep(o) == IF o = "nt" THEN BACKSLASH ELSE SLASH

\* the current directory of the process, as components below the root
Cwd == << <<"w">> >>

IsAbs(o, p) == p # <<>> /\ p[1] \in Seps(o)

RECURSIVE NormAcc(_, _)
\* normpath on the components of an absolute path: "" and "." dropped
\* (there is no "." symbol), ".." removes the component before it and is
\* dropped at the root
NormAcc(comps, acc) ==
    IF comps = <<>> THEN acc
    ELSE IF Head(comps) = <<>> THEN NormAcc(Tail(comps), acc)
    ELSE IF Head(comps) = <<PARDIR>>
         THEN NormAcc(Tail(comps),
                      IF acc = <<>> THEN acc ELSE SubSeq(acc, 1, Len(acc) - 1))
    ELSE NormAcc(Tail(comps), Append(acc, Head(comps)))

\* the components of os.path.abspath(p) below the root
AbsComps(o, p) ==
    IF IsAbs(o, p) THEN NormAcc(Split(p, Seps(o)), <<>>)
    ELSE NormAcc(Split(p, Seps(o)), Cwd)

RECURSIVE LastSep(_, _, _)
\* p.rfind(sep) + 1, looking at positions 1..i
LastSep(o, p, i) ==
    IF i = 0 THEN 0
    ELSE IF p[i] \in Seps(o) THEN i ELSE LastSep(o, p, i - 1)

\* os.path.dirname(p)
Dirname(o, p) ==
    LET head == SubSeq(p, 1, LastSep(o, p, Len(p)))
    IN  IF RStrip(head, Seps(o)) = <<>> THEN head
        ELSE RStrip(head, Seps(o))

\* os.path.join(a, b) for a name b that holds no separator
PathJoin(o, a, b) ==
    IF a = <<>> \/ a[Len(a)] \in Seps(o) THEN a \o b
    ELSE a \o <<Sep(o)>> \o b

RECURSIVE CommonLen(_, _)
\* len(commonprefix([x, y])) on component lists
CommonLen(x, y) ==
    IF x = <<>> \/ y = <<>> \/ Head(x) # Head(y) THEN 0
    ELSE 1 + CommonLen(Tail(x), Tail(y))

\* os.path.relpath(p, start); "" as start stands for the current directory
Relpath(o, p, start) ==
    LET start_list == AbsComps(o, start)
        path_list  == AbsComps(o, p)
        i          == CommonLen(start_list, path_list)
        rel_list   == [k \in 1..(Len(start_list) - i) |-> <<PARDIR>>]
                      \o SubSeq(path_list, i + 1, Len(path_list))
    IN  IF rel_list = <<>> THEN <<".">> ELSE StrJoin(rel_list, Sep(o))

----------------------------------------------------------------------------
(* The local file system *)

\* the regular files, by their components below the root: /w/s/a, /w/s/i/b
\* and /w/s/i/.DS_Store
FileA  == << <<"w">>, <<"s">>, <<"a">> >>
FileB  == << <<"w">>, <<"s">>, <<"i">>, <<"b">> >>
FileDS == << <<"w">>, <<"s">>, <<"i">>, <<DS_STORE>> >>

FileSet == {FileA, FileB, FileDS}

\* what a file may hold; "" is the zero-byte file
Contents == {"", "x", "y"}

IsPrefix(d, f) == Len(d) <= Len(f) /\ SubSeq(f, 1, Len(d)) = d

EndsWithSep(o, p) == p # <<>> /\ p[Len(p)] \in Seps(o)

\* os.path.isfile(p)
IsFile(o, p) == p # <<>> /\ ~EndsWithSep(o, p) /\ AbsComps(o, p) \in FileSet

\* os.path.isdir(p)
IsDir(o, p) ==
    /\ p # <<>>
    /\ \E f \in FileSet : IsPrefix(AbsComps(o, p), f) /\ f # AbsComps(o, p)

RECURSIVE JoinAll(_, _, _)
\* os.path.join(root, name) applied down the tree from the walk's top
JoinAll(o, a, names) ==
    IF names = <<>> THEN a
    ELSE JoinAll(o, PathJoin(o, a, Head(names)), Tail(names))

\* the file paths os.walk(top) hands to the loop body: os.path.join(root, file)
WalkPaths(o, top) ==
    LET d == AbsComps(o, top)
    IN  { JoinAll(o, top, SubSeq(f, Len(d) + 1, Len(f))) :
            f \in { g \in FileSet : IsPrefix(d, g) /\ g # d } }

\* os.walk is top-down: a directory's files come before its subdirectories'
WalkNext(o, remaining) ==
    { p \in remaining :
        \A q \in remaining :
            ~( /\ IsPrefix(AbsComps(o, Dirname(o, q)), AbsComps(o, Dirname(o, p)))
               /\ AbsComps(o, Dirname(o, q)) # AbsComps(o, Dirname(o, p)) ) }

----------------------------------------------------------------------------
(* Digest and the store *)

\* hashlib.md5 over the file read in 4096-byte chunks, as hexdigest()
Md5(c) ==
    CASE c = ""  -> <<"d41d8cd98f00b204e9800998ecf8427e">>
      [] c = "x" -> <<"9dd4e461268c8034f5c8564e155c67a6">>
      [] c = "y" -> <<"415290769594460e2e485922904f345d">>

\* the ETag the store reports for an object written by one put_object
PutETag(body) == <<QUOTE>> \o Md5(body) \o <<QUOTE>>

\* how a store call may end: answered by the store as it stands ("none"),
\* refused with an error response (botocore ClientError: "client"), or no
\* response at all (a botocore connection / timeout error, which is not a
\* ClientError: "other")
Faults == {"none", "client", "other"}

\* what the caller of head_object sees
HeadResp(b, k, fault) ==
    IF fault = "other" THEN "OtherError"
    ELSE IF fault = "client" \/ k \notin DOMAIN b THEN "ClientError"
    ELSE "ok"

\* what the caller of put_object, delete_object or list_objects sees
CallResp(fault) ==
    IF fault = "other" THEN "OtherError"
    ELSE IF fault = "client" THEN "ClientError"
    ELSE "ok"

Call(r, op, file, k, fault, resp, body) ==
    [run |-> r, op |-> op, file |-> file, key |-> k, fault |-> fault,
     resp |-> resp, body |-> body]

\* no object: what a key outside the bucket reads as in the history fields
Absent == [body |-> NONE, etag |-> <<>>]

ObjectAt(b, k) == IF k \in DOMAIN b THEN b[k] ELSE Absent

\* the bucket after put_object(Key=k, Body=body)
Put(b, k, body) ==
    (k :> [body |-> body, etag |-> PutETag(body)]) @@ b

\* the bucket after delete_object(Key=k); deleting a missing key is no error
Remove(b, k) == [x \in DOMAIN b \ {k} |-> b[x]]

----------------------------------------------------------------------------
(* Upload: cloudflare_r2_upload.py ("pkg") and CloudflareR2 in main.py ("mono") *)

\* the path taken relative to base_path itself, os.path.dirname forgotten
RelativePathNoDirname(o, p, base_path) == Relpath(o, p, base_path)

\* the relative_path upload() hands to upload_file
RelativePath(o, p, base_path) == Relpath(o, p, Dirname(o, base_path))

\* one line of the process's report: how an upload_file call ended, or a message
Entry(r, file, k, announce, result, content, pre, post) ==
    [run |-> r, file |-> file, key |-> k, announce |-> announce,
     result |-> result, content |-> content, pre |-> pre, post |-> post]

Msg(r, text) == Entry(r, <<>>, <<>>, "none", text, NONE, Absent, Absent)

\* upload_file(file_path, relative_path), the store ending file_exists'
\* head_object as f1, the second head_object as f2 and put_object as f3.
\* result: "ignored" (Ignoring ...), "skipped" (already exists and is up to
\* date), "uploaded" (Successfully uploaded), "error" (Error uploading ...:
\* the ClientError caught), "raised" (an exception left upload_file).
\* announce: "new" (Uploading new file) or "changed" (exists but has changed).
UploadFile(im, b, r, file_path, relative_path, content, f1, f2, f3) ==
    LET k         == ReplaceBackslash(relative_path)
        local_md5 == Md5(content)
        h1 == Call(r, "head_object", file_path, k, f1, HeadResp(b, k, f1), NONE)
        h2 == Call(r, "head_object", file_path, k, f2, HeadResp(b, k, f2), NONE)
        p  == Call(r, "put_object", file_path, k, f3, CallResp(f3), content)
        End(cs, b2, announce, result) ==
            [calls  |-> cs,
             bucket |-> b2,
             entry  |-> Entry(r, file_path, k, announce, result, content,
                              ObjectAt(b, k), ObjectAt(b2, k))]
        PutObject(cs, announce) ==
            IF p.resp = "ok"
            THEN End(Append(cs, p), Put(b, k, content), announce, "uploaded")
            ELSE IF p.resp = "ClientError"
            THEN End(Append(cs, p), b, announce, "error")
            ELSE End(Append(cs, p), b, announce, "raised")
    IN  IF im = "pkg" /\ Contains(file_path, DS_STORE)
        THEN End(<<>>, b, "none", "ignored")
        ELSE IF h1.resp = "OtherError" THEN End(<<h1>>, b, "none", "raised")
        ELSE IF h1.resp = "ClientError" THEN PutObject(<<h1>>, "new")
        ELSE IF h2.resp = "OtherError" THEN End(<<h1, h2>>, b, "none", "raised")
        ELSE IF h2.resp = "ClientError" THEN End(<<h1, h2>>, b, "none", "error")
        ELSE IF local_md5 = Strip(b[k].etag, {QUOTE})
        THEN End(<<h1, h2>>, b, "none", "skipped")
        ELSE PutObject(<<h1, h2>>, "changed")

\* the number of calls of cs the environment failed
Failed(cs) == Cardinality({i \in 1..Len(cs) : cs[i].fault # "none"})

----------------------------------------------------------------------------
(* Delete: cloudflare_r2_delete.py ("pkg") and CloudflareR2.delete in main.py *)

\* path.split('/')
PathComponents(path) == Split(path, {SLASH})

\* path_components[-1] == ''
IsFolder(path) == PathComponents(path)[Len(PathComponents(path))] = <<>>

\* path_components.pop(); '/'.join(path_components)
FolderPath(path) ==
    StrJoin(SubSeq(PathComponents(path), 1, Len(PathComponents(path)) - 1), SLASH)

\* the keys list_objects(Prefix=prefix) returns (one page)
Matching(b, prefix) == {k \in DOMAIN b : IsPrefix(prefix, k)}

\* the orders a finite set may be listed in
Orders(S) ==
    {q \in [1..Cardinality(S) -> S] : \A i, j \in 1..Cardinality(S) : q[i] = q[j] => i = j}

\* objects['Contents'] (main.py) against objects.get('Contents', []): a
\* listing that matched nothing holds no 'Contents'
ContentsRaises(im, matched) == im = "mono" /\ matched = {}

----------------------------------------------------------------------------
(* Bounds *)

\* store calls the environment may fail in one behaviour
MaxFaults == 1

\* times the same command is run
MaxRuns == 2

\* longest file path and longest base_path handed to the path mapper alone
MaxPathLen == 3
MaxBaseLen == 2

----------------------------------------------------------------------------
(* The process *)

EnvVars ==
    {"CLOUDFLARE_ACCOUNT_ID", "CLOUDFLARE_ACCESS_KEY_ID",
     "CLOUDFLARE_SECRET_ACCESS_KEY", "CLOUDFLARE_BUCKET_NAME",
     "CLOUDFLARE_ENDPOINT"}

\* os.environ.get(v): None ("unset"), '' ("empty") or a non-empty string
EnvValues == {"unset", "empty", "set"}

\* a check that takes '' for a value: only None counts as missing
AllSetNotNone(e) == \A v \in EnvVars : e[v] # "unset"

\* all([...]) over the five values
AllSet(e) == \A v \in EnvVars : e[v] = "set"

\* CloudflareR2.__init__, called first thing in main()'s try block
Construct ==
    /\ pc = "start"
    /\ s3' = AllSet(env)
    /\ pc' = IF AllSet(env) THEN "constructed" ELSE "ValueError"
    /\ UNCHANGED <<os, impl, env, args, local, bucket, calls, out, todo,
                   listed, faults, run, fpath, key>>

\* main(): except ValueError
ExceptValueError ==
    /\ pc = "ValueError"
    /\ out' = out \o <<Msg(run, "Error: Missing required environment variables"),
                       Msg(run, "Please ensure all required environment variables are set.")>>
    /\ pc' = "exit"
    /\ UNCHANGED <<os, impl, env, args, s3, local, bucket, calls, todo,
                   listed, faults, run, fpath, key>>

\* main(): the if / elif / else on the flags, up to the first store call of
\* upload() or delete()
Dispatch ==
    /\ pc = "constructed"
    /\ LET uploading == args.upload /\ args.has_base /\ args.base_path # <<>>
           isfile    == IsFile(os, args.path)
           isdir     == IsDir(os, args.path)
       IN  /\ pc' = IF uploading
                    THEN (IF isfile \/ isdir THEN "walking" ELSE "done")
                    ELSE IF args.delete
                    THEN (IF IsFolder(args.path) THEN "list" ELSE "delete_single")
                    ELSE "done"
           /\ todo' = IF uploading /\ isfile THEN {args.path}
                      ELSE IF uploading /\ isdir THEN WalkPaths(os, args.path)
                      ELSE {}
           /\ out' = IF uploading /\ ~isfile /\ ~isdir
                     THEN Append(out, Msg(run, "Invalid path"))
                     ELSE IF ~uploading /\ ~args.delete
                     THEN Append(out, Msg(run, "Please choose to upload or delete"))
                     ELSE out
    /\ UNCHANGED <<os, impl, env, args, s3, local, bucket, calls, listed,
                   faults, run, fpath, key>>

\* the ways the environment may end the three store calls of one upload_file
\* when it may still fail n calls
FaultPlans(n) ==
    { t \in Faults \X Faults \X Faults :
        Cardinality({i \in 1..3 : t[i] # "none"}) <= n }

\* upload(): one turn of the loop (or the single call for a file path):
\* relpath, then upload_file
UploadStep ==
    /\ pc = "walking"
    /\ \E p \in WalkNext(os, todo), t \in FaultPlans(MaxFaults - faults) :
        LET res == UploadFile(impl, bucket, run, p,
                              RelativePath(os, p, args.base_path),
                              local[AbsComps(os, p)], t[1], t[2], t[3])
        IN  /\ Failed(res.calls) = Cardinality({i \in 1..3 : t[i] # "none"})
            /\ faults' = faults + Failed(res.calls)
            /\ calls' = calls \o res.calls
            /\ bucket' = res.bucket
            /\ out' = Append(out, res.entry)
            /\ todo' = todo \ {p}
            /\ pc' = IF res.entry.result = "raised" THEN "crashed"
                     ELSE IF todo \ {p} = {} THEN "done" ELSE "walking"
    /\ UNCHANGED <<os, impl, env, args, s3, local, listed, run, fpath, key>>

\* delete(), folder branch: list_objects(Prefix=folder_path)
ListObjects ==
    /\ pc = "list"
    /\ \E f \in Faults :
        LET prefix  == FolderPath(args.path)
            matched == Matching(bucket, prefix)
        IN  /\ f # "none" => faults < MaxFaults
            /\ faults' = IF f = "none" THEN faults ELSE faults + 1
            /\ calls' = Append(calls, Call(run, "list_objects", <<>>, prefix, f,
                                           CallResp(f), NONE))
            /\ \E order \in Orders(matched) :
                listed' = IF f = "none" THEN order ELSE <<>>
            /\ pc' = IF f # "none" \/ ContentsRaises(impl, matched)
                     THEN "crashed" ELSE "deleting"
    /\ UNCHANGED <<os, impl, env, args, s3, local, bucket, out, todo, run,
                   fpath, key>>

\* delete(), folder branch: one turn of the loop over the listing
DeleteObject ==
    /\ pc = "deleting"
    /\ listed # <<>>
    /\ \E f \in Faults :
        /\ f # "none" => faults < MaxFaults
        /\ faults' = IF f = "none" THEN faults ELSE faults + 1
        /\ calls' = Append(calls, Call(run, "delete_object", <<>>, Head(listed), f,
                                       CallResp(f), NONE))
        /\ bucket' = IF f = "none" THEN Remove(bucket, Head(listed)) ELSE bucket
        /\ listed' = Tail(listed)
        /\ pc' = IF f = "none" THEN "deleting" ELSE "crashed"
    /\ UNCHANGED <<os, impl, env, args, s3, local, out, todo, run, fpath, key>>

\* delete(), folder branch: delete_object(Key=folder_path + '/')
DeleteMarker ==
    /\ pc = "deleting"
    /\ listed = <<>>
    /\ \E f \in Faults :
        LET k == FolderPath(args.path) \o <<SLASH>>
        IN  /\ f # "none" => faults < MaxFaults
            /\ faults' = IF f = "none" THEN faults ELSE faults + 1
            /\ calls' = Append(calls, Call(run, "delete_object", <<>>, k, f,
                                           CallResp(f), NONE))
            /\ bucket' = IF f = "none" THEN Remove(bucket, k) ELSE bucket
            /\ pc' = IF f = "none" THEN "done" ELSE "crashed"
    /\ UNCHANGED <<os, impl, env, args, s3, local, out, todo, listed, run,
                   fpath, key>>

\* delete(), file branch: delete_object(Key=path)
DeleteSingle ==
    /\ pc = "delete_single"
    /\ \E f \in Faults :
        /\ f # "none" => faults < MaxFaults
        /\ faults' = IF f = "none" THEN faults ELSE faults + 1
        /\ calls' = Append(calls, Call(run, "delete_object", <<>>, args.path, f,
                                       CallResp(f), NONE))
        /\ bucket' = IF f = "none" THEN Remove(bucket, args.path) ELSE bucket
        /\ pc' = IF f = "none" THEN "done" ELSE "crashed"
    /\ UNCHANGED <<os, impl, env, args, s3, local, out, todo, listed, run,
                   fpath, key>>

\* what the operator may have done to the local files between two runs:
\* nothing, or rewritten one of them
Edits(l) ==
    {l} \cup { [l EXCEPT ![f] = "y"] : f \in {g \in {FileA, FileB} : l[g] # "y"} }

\* the operator runs the same command again (a new process), possibly after
\* editing a local file
Rerun ==
    /\ pc = "done"
    /\ run < MaxRuns
    /\ run' = run + 1
    /\ pc' = "start"
    /\ s3' = FALSE
    /\ local' \in Edits(local)
    /\ UNCHANGED <<os, impl, env, args, bucket, calls, out, todo, listed,
                   faults, fpath, key>>

\* the path mapper alone: the key upload_file derives for fpath
MapKey ==
    /\ pc = "map"
    /\ key' = ReplaceBackslash(RelativePath(os, fpath, args.base_path))
    /\ pc' = "mapped"
    /\ UNCHANGED <<os, impl, env, args, s3, local, bucket, calls, out, todo,
                   listed, faults, run, fpath>>

----------------------------------------------------------------------------
(* Initial states *)

Args(path, has_base, base_path, upload, delete) ==
    [path |-> path, has_base |-> has_base, base_path |-> base_path,
     upload |-> upload, delete |-> delete]

InitIdle ==
    /\ s3 = FALSE
    /\ calls = <<>>
    /\ out = <<>>
    /\ todo = {}
    /\ listed = <<>>
    /\ faults = 0
    /\ run = 1
    /\ key = <<>>

\* a bucket nobody has written to
EmptyBucket == <<>>

\* a bucket written by earlier runs and by other tools: an object equal to
\* one local content, one written in parts (its ETag is no MD5), one whose
\* ETag comes without quotes, a folder marker and an unrelated key
UsedBucket ==
    (<<"s", SLASH, "a">> :> [body |-> "x", etag |-> PutETag("x")])
    @@ (<<"s", SLASH, "i", SLASH, "b">> :>
            [body |-> "y", etag |-> <<QUOTE, "0f343b0931126a20f133d67c2b018a3b-2", QUOTE>>])
    @@ (<<"a">> :> [body |-> "y", etag |-> Md5("y")])
    @@ (<<"s", SLASH>> :> [body |-> "", etag |-> PutETag("")])
    @@ (<<"t">> :> [body |-> "x", etag |-> PutETag("x")])

\* the local files as the first run finds them; b is a zero-byte file
LocalFiles == (FileA :> "x") @@ (FileB :> "") @@ (FileDS :> "y")

\* what the operator may type for an upload: <<path, base_path>>
UploadCommands(o) ==
    { << <<"s">>, <<"s">> >>,
      << <<"s", Sep(o)>>, <<"s", Sep(o)>> >>,
      << <<"s", Sep(o), "a">>, <<"s">> >>,
      << <<"s", Sep(o), "i", Sep(o), DS_STORE>>, <<"s", Sep(o)>> >>,
      << <<"n">>, <<"s">> >> }

AllEnvSet == [v \in EnvVars |-> "set"]

InitUpload ==
    /\ InitIdle
    /\ pc = "start"
    /\ os \in {"posix", "nt"}
    /\ impl \in {"pkg", "mono"}
    /\ env = AllEnvSet
    /\ \E c \in UploadCommands(os) : args = Args(c[1], TRUE, c[2], TRUE, FALSE)
    /\ local = LocalFiles
    /\ bucket \in {EmptyBucket, UsedBucket}
    /\ fpath = <<>>

NextUpload ==
    \/ Construct
    \/ Dispatch
    \/ UploadStep
    \/ Rerun

SpecUpload == InitUpload /\ [][NextUpload]_vars


\* the upload runs of C1 and C2 are read on the POSIX interpreter, against the
\* bucket that already holds objects
InitRerun == InitUpload /\ os = "posix" /\ bucket = UsedBucket

SpecRerun == InitRerun /\ [][NextUpload]_vars

\* what the operator may type for a delete
DeletePaths ==
    { <<>>, <<"s", SLASH>>, <<"s">>, <<"s", SLASH, "a">>,
      <<"s", SLASH, "i", SLASH>>, <<"n", SLASH>>, <<SLASH>>, <<"t">> }

InitDelete ==
    /\ InitIdle
    /\ pc = "start"
    /\ os = "posix"
    /\ impl \in {"pkg", "mono"}
    /\ env = AllEnvSet
    /\ \E p \in DeletePaths : args = Args(p, FALSE, <<>>, FALSE, TRUE)
    /\ local = LocalFiles
    /\ bucket \in {EmptyBucket, UsedBucket}
    /\ fpath = <<>>

NextDelete ==
    \/ Construct
    \/ Dispatch
    \/ ListObjects
    \/ DeleteObject
    \/ DeleteMarker
    \/ DeleteSingle

SpecDelete == InitDelete /\ [][NextDelete]_vars

\* the command lines of the whole program
Commands ==
    { Args(<<"s", SLASH>>, TRUE, <<"s", SLASH>>, TRUE, FALSE),
      Args(<<"s", SLASH>>, FALSE, <<>>, TRUE, FALSE),
      Args(<<"s", SLASH>>, TRUE, <<"s", SLASH>>, TRUE, TRUE),
      Args(<<"s", SLASH>>, FALSE, <<>>, FALSE, TRUE),
      Args(<<"t">>, FALSE, <<>>, TRUE, TRUE),
      Args(<<"s", SLASH>>, FALSE, <<>>, FALSE, FALSE) }

Init ==
    /\ InitIdle
    /\ pc = "start"
    /\ os = "posix"
    /\ impl \in {"pkg", "mono"}
    /\ env \in [EnvVars -> EnvValues]
    /\ args \in Commands
    /\ local = LocalFiles
    /\ bucket = UsedBucket
    /\ fpath = <<>>

Next ==
    \/ Construct
    \/ ExceptValueError
    \/ Dispatch
    \/ UploadStep
    \/ ListObjects
    \/ DeleteObject
    \/ DeleteMarker
    \/ DeleteSingle
    \/ Rerun

Spec == Init /\ [][Next]_vars

\* all strings of at most n symbols of S
StringsUpTo(S, n) == UNION { [1..k -> S] : k \in 0..n }

\* the symbols of the file paths and of the base paths handed to the mapper
PathSymbols == {SLASH, BACKSLASH, "s", "a"}
BaseSymbols == {SLASH, BACKSLASH, "s", PARDIR}

\* on Windows a path that starts with two separators names a network share,
\* not a local file: such paths are left out
IsUNC(o, p) == o = "nt" /\ Len(p) >= 2 /\ p[1] \in Seps(o) /\ p[2] \in Seps(o)

InitKey ==
    /\ InitIdle
    /\ pc = "map"
    /\ os \in {"posix", "nt"}
    /\ impl = "pkg"
    /\ env = AllEnvSet
    /\ fpath \in StringsUpTo(PathSymbols, MaxPathLen) \ {<<>>}
    /\ ~IsUNC(os, fpath)
    /\ \E b \in StringsUpTo(BaseSymbols, MaxBaseLen) \ {<<>>} :
        /\ ~IsUNC(os, b)
        /\ args = Args(fpath, TRUE, b, TRUE, FALSE)
    /\ local = LocalFiles
    /\ bucket = EmptyBucket

NextKey == MapKey

SpecKey == InitKey /\ [][NextKey]_vars

----------------------------------------------------------------------------
(* Reading the history *)

\* the store calls issued by upload_file for file f in run r
CallsOf(r, f) == SelectSeq(calls, LAMBDA c : c.run = r /\ c.file = f)

PutsOf(r, f) == SelectSeq(CallsOf(r, f), LAMBDA c : c.op = "put_object")

\* the store answered every call of that upload_file as it stood
Answered(r, f) == \A i \in 1..Len(CallsOf(r, f)) : CallsOf(r, f)[i].fault = "none"

\* an ETag without the quote characters around it
Unquoted(t) ==
    LET inner == {i \in 1..Len(t) : t[i] # QUOTE}
    IN  IF inner = {} THEN <<>>
        ELSE SubSeq(t, CHOOSE i \in inner : \A j \in inner : i <= j,
                       CHOOSE i \in inner : \A j \in inner : j <= i)

\* the last component of a path
BaseName(o, p) == Split(p, Seps(o))[Len(Split(p, Seps(o)))]

----------------------------------------------------------------------------
(* C6: missing configuration *)

SomeValueMissing == \E v \in EnvVars : env[v] \in {"unset", "empty"}

\* C6: when one of the five required values is unset or empty, the
\* constructor raises before the S3 client exists and before any store call;
\* main then prints the two lines about the environment variables and neither
\* uploads nor deletes, whatever the flags.
MissingConfigFailsFast ==
    SomeValueMissing =>
        /\ s3 = FALSE
        /\ calls = <<>>
        /\ bucket = UsedBucket
        /\ pc \in {"start", "ValueError", "exit"}
        /\ pc # "exit" => out = <<>>
        /\ pc = "exit" =>
            out = <<Msg(1, "Error: Missing required environment variables"),
                    Msg(1, "Please ensure all required environment variables are set.")>>

\* C6 witness: the endpoint is the empty string, an upload was asked for, and
\* main has printed its message
MissingConfigWitness ==
    /\ env["CLOUDFLARE_ENDPOINT"] = "empty"
    /\ \A v \in EnvVars \ {"CLOUDFLARE_ENDPOINT"} : env[v] = "set"
    /\ args.upload /\ args.has_base
    /\ pc = "exit"
    /\ Len(out) = 2

----------------------------------------------------------------------------
(* C1, C2: the reconciliation of one file *)

\* entries i and j of the report are two calls of upload_file in a row for
\* the same file and key, the content unchanged, the store answering both
TwiceInARow(i, j) ==
    /\ i < j
    /\ out[i].file # <<>> /\ out[i].file = out[j].file
    /\ out[i].key = out[j].key
    /\ out[j].run = out[i].run + 1
    /\ out[i].result \in {"uploaded", "skipped"}
    /\ out[j].result # "ignored"
    /\ out[i].content = out[j].content
    /\ Answered(out[i].run, out[i].file)
    /\ Answered(out[j].run, out[j].file)

\* C1: upload_file called twice in a row on an unchanged file, against a
\* store that reports the quoted MD5 of the body last put: the second call
\* ends in the "already exists and is up to date" skip, issues no put_object,
\* and leaves the stored object as the first call left it.
UploadIdempotent ==
    \A i, j \in 1..Len(out) :
        TwiceInARow(i, j) =>
            /\ out[j].result = "skipped"
            /\ PutsOf(out[j].run, out[j].file) = <<>>
            /\ out[j].post = out[i].post
            /\ out[j].pre = out[i].post

\* C1 witness: the first call uploaded the file, the second one skipped it
UploadIdempotentWitness ==
    \E i, j \in 1..Len(out) :
        /\ TwiceInARow(i, j)
        /\ out[i].result = "uploaded"
        /\ out[j].result = "skipped"
        /\ out[j].post.body = out[j].content

\* the decision the claim gives for a local digest and the object found
Decision(digest, pre) ==
    IF pre = Absent THEN "create"
    ELSE IF Unquoted(pre.etag) = digest THEN "skip"
    ELSE "update"

\* C2: for a file that is not ignored and whose store calls are all answered,
\* exactly one put_object is issued, under the mapped key and with the file's
\* current content, when the key holds no object (create) or one whose ETag
\* without its quotes differs from the local MD5 (update); none is issued
\* when they are equal.  Nothing but the local digest and the object at that
\* key decides.
ReconciliationDecision ==
    \A i \in 1..Len(out) :
        LET e    == out[i]
            puts == PutsOf(e.run, e.file)
            d    == Decision(Md5(e.content), e.pre)
        IN  (e.file # <<>> /\ e.result # "ignored" /\ Answered(e.run, e.file)) =>
                /\ e.run = run => e.content = local[AbsComps(os, e.file)]
                /\ d = "skip" =>
                    /\ puts = <<>>
                    /\ e.result = "skipped"
                    /\ e.post = e.pre
                /\ d \in {"create", "update"} =>
                    /\ Len(puts) = 1
                    /\ puts[1].key = e.key
                    /\ puts[1].body = e.content
                    /\ e.result = "uploaded"
                    /\ e.announce = (IF d = "create" THEN "new" ELSE "changed")
                    /\ e.post.body = e.content

\* C2 witness: one run has created an object, updated another (a zero-byte
\* file over an object written in parts) and skipped a third
ReconciliationWitness ==
    /\ \E i \in 1..Len(out) :
        out[i].announce = "new" /\ out[i].result = "uploaded" /\ out[i].run = 1
    /\ \E i \in 1..Len(out) :
        /\ out[i].announce = "changed" /\ out[i].result = "uploaded"
        /\ out[i].content = "" /\ out[i].run = 1
    /\ \E i \in 1..Len(out) : out[i].result = "skipped" /\ out[i].run = 1
    /\ faults = 0

----------------------------------------------------------------------------
(* C7: the key *)

\* the directory base_path names, and the file, as components below the root
BaseDir == AbsComps(os, args.base_path)
File    == AbsComps(os, fpath)

ParentOf(d) == SubSeq(d, 1, Len(d) - 1)

\* f lies under the directory d
Under(d, f) == Len(f) > Len(d) /\ SubSeq(f, 1, Len(d)) = d

\* the path of f relative to d, written with '/'
RelativeTo(d, f) == StrJoin(SubSeq(f, Len(d) + 1, Len(f)), SLASH)

\* s with '/' for every backslash
Slashed(s) == [i \in 1..Len(s) |-> IF s[i] = BACKSLASH THEN SLASH ELSE s[i]]

TrailingSep == args.base_path[Len(args.base_path)] \in Seps(os)

\* base_path names no ".." component
NoParDir ==
    LET comps == Split(args.base_path, Seps(os))
    IN  \A i \in 1..Len(comps) : comps[i] # <<PARDIR>>

\* C7 as claimed, on its plainest inputs (a base_path without "..", a file
\* under base_path and so under its parent directory, no backslash inside a
\* POSIX file name): whether or not base_path ends with a separator, the key
\* holds no backslash and is the file's path relative to the parent directory
\* of base_path, written with '/'.
KeyRelativeToParent ==
    ( /\ pc = "mapped"
      /\ NoParDir
      /\ Under(BaseDir, File)
      /\ Under(ParentOf(BaseDir), File)
      /\ ~(os = "posix" /\ Contains(fpath, BACKSLASH)) ) =>
        /\ ~Contains(key, BACKSLASH)
        /\ key = RelativeTo(ParentOf(BaseDir), File)

\* C7 as amended: the key never holds a backslash; for a base_path without a
\* trailing separator whose last component is a name (not ".."), and a file
\* under its parent directory, the key is the file's path relative to that
\* parent directory written with '/', a backslash inside a POSIX file name
\* turned into '/' as well; for a base_path with a trailing separator and a
\* file under base_path, the key is the path relative to base_path itself.
KeyRelativeToDirname ==
    pc = "mapped" =>
        /\ ~Contains(key, BACKSLASH)
        /\ ( /\ ~TrailingSep
             /\ BaseName(os, args.base_path) # <<PARDIR>>
             /\ Under(ParentOf(BaseDir), File) ) =>
                key = Slashed(RelativeTo(ParentOf(BaseDir), File))
        /\ (TrailingSep /\ Under(BaseDir, File)) =>
                key = Slashed(RelativeTo(BaseDir, File))

\* C7 witness: on Windows, s\a under the base path s gets the key s/a
KeyWitness ==
    /\ pc = "mapped"
    /\ os = "nt"
    /\ fpath = <<"s", BACKSLASH, "a">>
    /\ args.base_path = <<"s">>
    /\ key = <<"s", SLASH, "a">>

----------------------------------------------------------------------------
(* C3, C5, C10: the walk and the store's failures *)

\* the report lines of upload_file for file f in run r
EntriesOf(r, f) == {i \in 1..Len(out) : out[i].run = r /\ out[i].file = f}

\* C3: when the store call (head or put) of one file of a directory walk
\* fails, by a store rejection or by a transport error, the failure is
\* reported for that file, upload returns normally, and every enumerated file
\* has had its one upload_file call.
WalkIsolatesFailure ==
    /\ \A i \in 1..Len(calls) :
        (calls[i].op \in {"head_object", "put_object"} /\ calls[i].fault # "none") =>
            /\ pc # "crashed"
            /\ \A j \in EntriesOf(calls[i].run, calls[i].file) : out[j].result = "error"
    /\ (pc = "done" /\ IsDir(os, args.path)) =>
        \A p \in WalkPaths(os, args.path) : Cardinality(EntriesOf(run, p)) = 1

\* C5: no head_object and no put_object is ever issued for a file named
\* .DS_Store, by either upload implementation.
NoStoreCallForDSStore ==
    \A i \in 1..Len(calls) :
        calls[i].op \in {"head_object", "put_object"} =>
            BaseName(os, calls[i].file) # <<DS_STORE>>

\* C10: a head_object probe that fails for another reason than the object
\* not existing makes upload_file report a failure for the file and issue
\* no put_object for the key.
FailedProbeIsFailure ==
    \A i \in 1..Len(calls) :
        (calls[i].op = "head_object" /\ calls[i].fault # "none") =>
            /\ PutsOf(calls[i].run, calls[i].file) = <<>>
            /\ \A j \in EntriesOf(calls[i].run, calls[i].file) : out[j].result = "error"

----------------------------------------------------------------------------
(* C4, C8, C9: delete *)

EndsWithSlash(p) == p # <<>> /\ p[Len(p)] = SLASH

\* the path without its last character
Chopped(p) == SubSeq(p, 1, Len(p) - 1)

\* C4: delete(P + '/') issues one list_objects with Prefix = P, then one
\* delete_object per listed key, then delete_object for P + '/', also when
\* the listing holds nothing; in both implementations (store calls answered).
FolderDeleteThenMarker ==
    (EndsWithSlash(args.path) /\ faults = 0) =>
        /\ pc # "crashed"
        /\ calls # <<>> =>
            /\ calls[1].op = "list_objects"
            /\ calls[1].key = Chopped(args.path)
        /\ \A i \in 2..Len(calls) : calls[i].op = "delete_object"
        /\ pc = "done" =>
            /\ Len(calls) >= 2
            /\ calls[Len(calls)].key = args.path
            /\ \A i \in 2..(Len(calls) - 1) : IsPrefix(Chopped(args.path), calls[i].key)
            /\ \A i, j \in 2..(Len(calls) - 1) : calls[i].key = calls[j].key => i = j
            /\ Matching(bucket, Chopped(args.path)) = {}

\* C8: in a folder delete, a delete_object the store fails is caught; the
\* remaining keys and the marker are still deleted and delete returns.
FolderDeleteIsolatesFailure ==
    ( /\ EndsWithSlash(args.path)
      /\ \E i \in 1..Len(calls) :
            calls[i].op = "delete_object" /\ calls[i].fault # "none" ) =>
        pc # "crashed"

\* C9: for a path that does not end with '/', the empty string included,
\* delete issues no list_objects and exactly one delete_object, for the key
\* path.
SingleObjectDelete ==
    ~EndsWithSlash(args.path) =>
        /\ \A i \in 1..Len(calls) :
            /\ calls[i].op = "delete_object"
            /\ calls[i].key = args.path
        /\ Len(calls) <= 1
        /\ pc = "done" => Len(calls) = 1

====
